---- MODULE Spec2Model ----
(***************************************************************************)
(* The Haxe backend's type lowering, conversion and type-metadata emitter  *)
(* (haxe/types.go) and the backend registry (pogo: LanguageList).          *)
(*                                                                         *)
(* Texts are strings: joined with \o, measured with Len and cut with       *)
(* SubSeq, as the Go code joins, measures and slices them.                 *)
(***************************************************************************)
EXTENDS Integers, Sequences, FiniteSets, TLC

VARIABLES
    last,              \* the last call made on the backend: its inputs and what it returned
    TypesEncountered,  \* pogo.TypesEncountered: type -> ID
    NextTypeID,        \* pogo.NextTypeID
    emitted,           \* what the last EmitTypeInfo wrote (its tables), or [valid |-> FALSE]
    LanguageList,      \* pogo.LanguageList
    languageListAppendMutex, \* the initializer that holds it, or 0
    pc,                \* position of each backend initializer
    local              \* each initializer's copy of the slice header it read

vars == <<last, TypesEncountered, NextTypeID, emitted, LanguageList,
          languageListAppendMutex, pc, local>>

\* Bounds of the model.
MaxDepth == 6      \* nested LangType calls before the Go stack is taken to overflow
MaxTypeIDs == 3    \* the highest ID the registry hands out
MaxInits == 4      \* backend initializers that register themselves


(***************************************************************************)
(* Text helpers: the Go library calls the code makes on strings.           *)
(***************************************************************************)

\* fmt.Sprintf("%d", n) for n >= 0.
Digit(d) ==
    CASE d = 0 -> "0" [] d = 1 -> "1" [] d = 2 -> "2" [] d = 3 -> "3" [] d = 4 -> "4"
      [] d = 5 -> "5" [] d = 6 -> "6" [] d = 7 -> "7" [] d = 8 -> "8" [] d = 9 -> "9"

RECURSIVE Itoa(_)
Itoa(n) == IF n < 10 THEN Digit(n) ELSE Itoa(n \div 10) \o Digit(n % 10)

\* s[i-1] of the Go string s: its i-th character.
Ch(s, i) == SubSeq(s, i, i)

\* strings.HasPrefix(s, p)
HasPrefix(s, p) == Len(s) >= Len(p) /\ SubSeq(s, 1, Len(p)) = p

\* strings.Split(s, sep) for a one-character separator: the pieces, in order.
RECURSIVE Split(_, _)
Split(s, c) ==
    IF \A i \in 1..Len(s) : Ch(s, i) # c
    THEN <<s>>
    ELSE LET i == CHOOSE k \in 1..Len(s) : Ch(s, k) = c /\ \A j \in 1..(k - 1) : Ch(s, j) # c
         IN  <<SubSeq(s, 1, i - 1)>> \o Split(SubSeq(s, i + 1, Len(s)), c)

\* strings.Replace(s, old, new, -1): every non-overlapping occurrence, left to right.
RECURSIVE Replace(_, _, _)
Replace(s, old, new) ==
    IF Len(s) < Len(old) THEN s
    ELSE IF SubSeq(s, 1, Len(old)) = old
         THEN new \o Replace(SubSeq(s, Len(old) + 1, Len(s)), old, new)
         ELSE Ch(s, 1) \o Replace(Tail(s), old, new)

(***************************************************************************)
(* The front end's types (go/types).  A type is a handle into the table TT;*)
(* two handles are two types that are not Identical, which is how the      *)
(* registry (a typeutil.Map) tells its keys apart.  A handle lets a type   *)
(* refer to itself: main.S holds a pointer to main.S, main.M is a map of   *)
(* main.M, main.C a channel of main.C.                                     *)
(***************************************************************************)
Ty(k, bk, str, under, elem, key, elems, size) ==
    [kind |-> k, bk |-> bk, str |-> str, under |-> under, elem |-> elem, key |-> key,
     elems |-> elems, size |-> size]

BasicT(bk, str, size) == Ty("Basic", bk, str, "", "", "", <<>>, size)
NamedT(str, under, size) == Ty("Named", "", str, under, "", "", <<>>, size)

TT ==
    (  "bool"           :> BasicT("Bool", "bool", 1)
    @@ "string"         :> BasicT("String", "string", 8)
    @@ "float32"        :> BasicT("Float32", "float32", 4)
    @@ "float64"        :> BasicT("Float64", "float64", 8)
    @@ "complex128"     :> BasicT("Complex128", "complex128", 16)
    @@ "int"            :> BasicT("Int", "int", 4)
    @@ "int8"           :> BasicT("Int8", "int8", 1)
    @@ "int16"          :> BasicT("Int16", "int16", 2)
    @@ "int32"          :> BasicT("Int32", "int32", 4)
    @@ "uint"           :> BasicT("Uint", "uint", 4)
    @@ "uint8"          :> BasicT("Uint8", "uint8", 1)
    @@ "uint16"         :> BasicT("Uint16", "uint16", 2)
    @@ "uint32"         :> BasicT("Uint32", "uint32", 4)
    @@ "int64"          :> BasicT("Int64", "int64", 8)
    @@ "uint64"         :> BasicT("Uint64", "uint64", 8)
    @@ "uintptr"        :> BasicT("Uintptr", "uintptr", 4)
    @@ "unsafe.Pointer" :> BasicT("UnsafePointer", "unsafe.Pointer", 4)
    @@ "untyped int"    :> BasicT("UntypedInt", "untyped int", 4)
    @@ "untyped rune"   :> BasicT("UntypedRune", "untyped rune", 4)
    @@ "untyped nil"    :> BasicT("UntypedNil", "untyped nil", 4)
    @@ "interface{}"    :> Ty("Interface", "", "interface{}", "", "", "", <<>>, 8)
    @@ "interface{Error() string}" :>
            Ty("Interface", "", "interface{Error() string}", "", "", "", <<>>, 8)
    \* named types: plain, self-referencing, distinct types that print alike (one of
    \* them a struct embedding error),
    \* two bound to a Haxe class by the naming convention, one whose name is one letter
    @@ "main.T"         :> NamedT("main.T", "int8", 1)
    @@ "main.S"         :> NamedT("main.S", "struct{next *main.S}", 4)
    @@ "main.D#1"       :> NamedT("main.D", "int", 4)
    @@ "main.D#2"       :> NamedT("main.D", "string", 8)
    @@ "main.D#3"       :> NamedT("main.D", "struct{error}", 8)
    @@ "main.I"         :> NamedT("main.I", "interface{}", 8)
    @@ "error"          :> NamedT("error", "interface{Error() string}", 8)
    @@ "main.L"         :> NamedT("main.L", "[]uint8", 12)
    @@ "main.M"         :> NamedT("main.M", "map[string]main.M", 4)
    @@ "main.C"         :> NamedT("main.C", "chan main.C", 4)
    @@ "_js.Xdom_Node"  :> NamedT("lib/hx/_js.Xdom_Node", "int", 4)
    @@ "_cpp.Xa___b"    :> NamedT("_cpp.Xa___b", "struct{next *main.S}", 4)
    @@ "_js.X"          :> NamedT("lib/hx/_js.X", "string", 8)
    \* named types over an unsafe pointer, one of them bound to a Haxe class, and an
    \* interface type bound to a Haxe class
    @@ "main.P"         :> NamedT("main.P", "unsafe.Pointer", 4)
    @@ "_js.Xptr"       :> NamedT("lib/hx/_js.Xptr", "unsafe.Pointer", 4)
    @@ "_js.XTarget"    :> NamedT("lib/hx/_js.XTarget", "interface{}", 8)
    @@ "chan int"       :> Ty("Chan", "", "chan int", "", "int", "", <<>>, 4)
    @@ "chan main.C"    :> Ty("Chan", "", "chan main.C", "", "main.C", "", <<>>, 4)
    @@ "map[string]int" :> Ty("Map", "", "map[string]int", "", "int", "string", <<>>, 4)
    @@ "map[string]main.M" :>
            Ty("Map", "", "map[string]main.M", "", "main.M", "string", <<>>, 4)
    @@ "[]uint8"        :> Ty("Slice", "", "[]uint8", "", "uint8", "", <<>>, 12)
    @@ "[]int32"        :> Ty("Slice", "", "[]int32", "", "int32", "", <<>>, 12)
    @@ "[]int64"        :> Ty("Slice", "", "[]int64", "", "int64", "", <<>>, 12)
    @@ "[]main.S"       :> Ty("Slice", "", "[]main.S", "", "main.S", "", <<>>, 12)
    @@ "[4]int"         :> Ty("Array", "", "[4]int", "", "int", "", <<>>, 16)
    @@ "struct{next *main.S}" :>
            Ty("Struct", "", "struct{next *main.S}", "", "", "", <<"*main.S">>, 4)
    @@ "struct{error}"  :> Ty("Struct", "", "struct{error}", "", "", "", <<"error">>, 8)
    @@ "*main.S"        :> Ty("Pointer", "", "*main.S", "", "main.S", "", <<>>, 4)
    @@ "*_js.Xdom_Node" :>
            Ty("Pointer", "", "*lib/hx/_js.Xdom_Node", "", "_js.Xdom_Node", "", <<>>, 4)
    @@ "func()"         :> Ty("Signature", "", "func()", "", "", "", <<>>, 4)
    @@ "()"             :> Ty("Tuple", "", "()", "", "", "", <<>>, 0)
    @@ "(int64)"        :> Ty("Tuple", "", "(int64)", "", "", "", <<"int64">>, 8)
    @@ "(main.T)"       :> Ty("Tuple", "", "(main.T)", "", "", "", <<"main.T">>, 1)
    @@ "(_js.Xdom_Node)" :>
            Ty("Tuple", "", "(lib/hx/_js.Xdom_Node)", "", "", "", <<"_js.Xdom_Node">>, 4)
    @@ "(int, bool)"    :> Ty("Tuple", "", "(int, bool)", "", "", "", <<"int", "bool">>, 8)
    @@ "(string, _js.Xdom_Node, *main.S)" :>
            Ty("Tuple", "", "(string, lib/hx/_js.Xdom_Node, *main.S)", "", "", "",
               <<"string", "_js.Xdom_Node", "*main.S">>, 16)
    \* what a map iterator has (not a types.* variant), and a variant nobody handles
    @@ "iter"           :> Ty("*ssa.opaqueType", "", "iter", "", "", "", <<>>, 4)
    @@ "alien"          :> Ty("*alien.Type", "", "alien", "", "", "", <<>>, 4)
    )

Types == DOMAIN TT

\* t.String()
String(t) == TT[t].str

\* t.Underlying(): a named type's underlying type is never named.
Underlying(t) == IF TT[t].kind = "Named" THEN TT[t].under ELSE t

\* t.(*types.Basic).Info()&types.IsUnsigned != 0
IsUnsigned(t) ==
    TT[t].bk \in {"Uint", "Uint8", "Uint16", "Uint32", "Uint64", "Uintptr"}

(***************************************************************************)
(* getHaxeClass: the Haxe class a Go type name is bound to, or "".         *)
(***************************************************************************)
getHaxeClass(fullname) ==
    IF Ch(fullname, 1) # "*"                       \* pointers can't be Haxe types
    THEN LET bits == Split(fullname, "/")
             s == bits[Len(bits)]               \* right-most bit: package and type name
         IN  IF Ch(s, 1) = "_"                  \* leading _ on the package name
             THEN LET splits == Split(s, ".")
                  IN  IF Len(splits) = 2
                      THEN LET goType == Tail(splits[2])   \* without the leading Restrictor
                               haxeType == Replace(goType, "_", ".")
                           IN  Replace(haxeType, "...", ".")
                      ELSE ""
             ELSE ""
    ELSE ""

(***************************************************************************)
(* What a call returns: the text, and what it did on the way: errors and   *)
(* warnings it logged (pogo.LogError, pogo.LogWarning), errors logged by   *)
(* pogo.IsValidInPogo, LangType invocations, whether the recursion ran out *)
(* of stack, whether a type assertion in it panicked.                      *)
(***************************************************************************)
Txt(text) ==
    [text |-> text, errs |-> 0, warns |-> 0, pogoErrs |-> 0, calls |-> 0,
     ovf |-> FALSE, panic |-> FALSE]

LogWarning(r) == [r EXCEPT !.warns = @ + 1]
LogError(r) == [r EXCEPT !.errs = @ + 1]
Enter(r) == [r EXCEPT !.calls = @ + 1]
Overflow == [Txt("") EXCEPT !.ovf = TRUE]
GoPanic == [Txt("") EXCEPT !.panic = TRUE]

\* a + b: both operands are evaluated, left to right, and their texts joined.
Cat(a, b) ==
    [text |-> a.text \o b.text, errs |-> a.errs + b.errs, warns |-> a.warns + b.warns,
     pogoErrs |-> a.pogoErrs + b.pogoErrs, calls |-> a.calls + b.calls,
     ovf |-> a.ovf \/ b.ovf, panic |-> a.panic \/ b.panic]

RECURSIVE CatAll(_)
CatAll(rs) == IF Len(rs) = 0 THEN Txt("") ELSE Cat(Head(rs), CatAll(Tail(rs)))

\* The kinds of type LangType has a case for.
Handled(t) ==
    \/ TT[t].kind \in {"Interface", "Named", "Chan", "Map", "Slice", "Array", "Struct",
                       "Tuple", "Pointer", "Signature", "*ssa.opaqueType"}
    \/ /\ TT[t].kind = "Basic"
       /\ TT[t].bk \in {"Bool", "UntypedBool", "String", "UntypedString", "Float64",
                        "Float32", "UntypedFloat", "Complex64", "Complex128",
                        "UntypedComplex", "Int", "Int8", "Int16", "Int32", "UntypedRune",
                        "Uint8", "Uint16", "Uint", "Uint32", "Int64", "Uint64",
                        "UntypedInt", "UnsafePointer", "Uintptr"}

\* pogo.IsValidInPogo(t, errorInfo).  What it answers for a type outside the kinds
\* above is not fixed here: accepts is its answer; a rejection is logged as an error.
IsValidInPogo(t, accepts) == Handled(t) \/ accepts

\* haxeStdSizes.Sizeof(t)
Sizeof(t) == TT[t].size

\* arrayOffsetCalc(ele): the multiplier text for an element of this type.
arrayOffsetCalc(ele) == "*" \o Itoa(Sizeof(ele))

\* pogo.MakeID(s): every character that is not a letter or a digit becomes "_".
AlphaNum ==
    {"a", "b", "c", "d", "e", "f", "g", "h", "i", "j", "k", "l", "m", "n", "o", "p", "q",
     "r", "s", "t", "u", "v", "w", "x", "y", "z", "A", "B", "C", "D", "E", "F", "G", "H",
     "I", "J", "K", "L", "M", "N", "O", "P", "Q", "R", "S", "T", "U", "V", "W", "X", "Y",
     "Z", "0", "1", "2", "3", "4", "5", "6", "7", "8", "9"}

RECURSIVE MakeID(_)
MakeID(s) ==
    IF Len(s) = 0 THEN ""
    ELSE (IF Ch(s, 1) \in AlphaNum THEN Ch(s, 1) ELSE "_") \o MakeID(Tail(s))

\* if retInitVal { return a }; return b
Pick(retInitVal, a, b) == IF retInitVal THEN a ELSE b

(***************************************************************************)
(* LangType(t, retInitVal, errorInfo): the Haxe type name of a Go type, or *)
(* the text of its zero value.  fuel is the stack left: a chain of nested  *)
(* calls longer than MaxDepth is a stack overflow.                         *)
(***************************************************************************)
\* LangTypeBasic gone wrong: every kind is taken for a native integer.
LangTypeBasicAllInt(t, retInitVal) == Txt(Pick(retInitVal, "0", "Int"))

LangTypeBasic(t, retInitVal) ==
    LET k == TT[t].bk IN
    CASE k \in {"Bool", "UntypedBool"} -> Txt(Pick(retInitVal, "false", "Bool"))
      [] k \in {"String", "UntypedString"} -> Txt(Pick(retInitVal, "\"\"", "String"))
      [] k \in {"Float64", "Float32", "UntypedFloat"} ->
            Txt(Pick(retInitVal, "0.0", "Float"))
      [] k \in {"Complex64", "Complex128", "UntypedComplex"} ->
            Txt(Pick(retInitVal, "new Complex(0.0,0.0)", "Complex"))
      [] k \in {"Int", "Int8", "Int16", "Int32", "UntypedRune",
                "Uint8", "Uint16", "Uint", "Uint32"} ->
            Txt(Pick(retInitVal, "0", "Int"))
      [] k \in {"Int64", "Uint64"} ->
            Txt(Pick(retInitVal, "GOint64.make(0,0)", "GOint64"))
      [] k = "UntypedInt" -> LogWarning(Txt("UNTYPED_INT"))
      [] k = "UnsafePointer" -> LogWarning(Txt(Pick(retInitVal, "null", "Pointer")))
      [] k = "Uintptr" -> Txt(Pick(retInitVal, "null", "Dynamic"))
      [] OTHER -> LogWarning(Txt(Pick(retInitVal, "null", "Dynamic")))

RECURSIVE LangType(_, _, _, _)
RECURSIVE TupleFields(_, _, _, _, _)

\* for ele := from; ele < tup.Len(); ele++ { ... }: the fields of the record
TupleFields(tup, from, retInitVal, accepts, fuel) ==
    IF from >= Len(TT[tup].elems) THEN Txt("")
    ELSE CatAll(<<Txt(IF from # 0 THEN "," ELSE ""),
                  Txt(MakeID("r" \o Itoa(from))),
                  Txt(":"),
                  LangType(Underlying(TT[tup].elems[from + 1]), retInitVal, accepts, fuel),
                  TupleFields(tup, from + 1, retInitVal, accepts, fuel)>>)

\* LangTypeNamed gone wrong: the native mapping is never consulted.
LangTypeNamedUnmapped(t, retInitVal, accepts, fuel) ==
    LangType(TT[t].under, retInitVal, accepts, fuel)

LangTypeNamed(t, retInitVal, accepts, fuel) ==
    LET haxeName == getHaxeClass(String(t)) IN
    IF haxeName # ""
    THEN Txt(Pick(retInitVal, "null", haxeName))
    ELSE LangType(TT[t].under, retInitVal, accepts, fuel)

\* LangTypeTuple gone wrong: the sole element is lowered as it is, name and all.
LangTypeTupleOfElement(t, retInitVal, accepts, fuel) ==
    CASE Len(TT[t].elems) = 0 -> Txt("")
      [] Len(TT[t].elems) = 1 -> LangType(TT[t].elems[1], retInitVal, accepts, fuel)
      [] OTHER ->
            CatAll(<<Txt("{"), TupleFields(t, 0, retInitVal, accepts, fuel), Txt("}")>>)

LangTypeTuple(t, retInitVal, accepts, fuel) ==
    CASE Len(TT[t].elems) = 0 -> Txt("")
      [] Len(TT[t].elems) = 1 ->
            LangType(Underlying(TT[t].elems[1]), retInitVal, accepts, fuel)
      [] OTHER ->
            CatAll(<<Txt("{"), TupleFields(t, 0, retInitVal, accepts, fuel), Txt("}")>>)

\* LangTypePointer gone wrong: the zero value is built from the pointee's.
LangTypePointerOfElem(t, retInitVal, accepts, fuel) ==
    IF retInitVal
    THEN CatAll(<<Txt("new Pointer("), LangType(TT[t].elem, retInitVal, accepts, fuel),
                  Txt(")")>>)
    ELSE Txt("Pointer")

LangTypePointer(t, retInitVal, accepts, fuel) ==
    Txt(Pick(retInitVal, "null", "Pointer"))

LangType(t, retInitVal, accepts, fuel) ==
    IF fuel = 0 THEN Overflow
    ELSE IF ~IsValidInPogo(t, accepts)
    THEN Enter([Txt("UNKNOWN_LANGTYPE") EXCEPT !.pogoErrs = 1])
    ELSE LET k == TT[t].kind
             sub(u, r) == LangType(u, r, accepts, fuel - 1)
         IN Enter(
            CASE k = "Basic" -> LangTypeBasic(t, retInitVal)
              [] k = "Interface" -> Txt(Pick(retInitVal, "null", "Interface"))
              [] k = "Named" -> LangTypeNamed(t, retInitVal, accepts, fuel - 1)
              [] k = "Chan" ->
                    IF retInitVal
                    THEN CatAll(<<Txt("new Channel<"), sub(TT[t].elem, FALSE), Txt(">(1)")>>)
                    ELSE CatAll(<<Txt("Channel<"), sub(TT[t].elem, FALSE), Txt(">")>>)
              [] k = "Map" ->
                    IF retInitVal
                    THEN CatAll(<<Txt("new GOmap("), sub(TT[t].key, TRUE), Txt(","),
                                  sub(TT[t].elem, TRUE), Txt(")")>>)
                    ELSE Txt("GOmap")
              [] k = "Slice" ->
                    IF retInitVal
                    THEN Txt("new Slice(new Pointer(" \o "new Object(0)" \o "),0,0,0,"
                           \o "1" \o arrayOffsetCalc(Underlying(TT[t].elem)) \o ")")
                    ELSE Txt("Slice")
              [] k = "Array" ->
                    Txt(Pick(retInitVal, "new Object(" \o Itoa(Sizeof(t)) \o ")",
                           "Object"))
              [] k = "Struct" ->
                    Txt(Pick(retInitVal,
                           "new Object(" \o Itoa(Sizeof(Underlying(t))) \o ")",
                           "Object"))
              [] k = "Tuple" -> LangTypeTuple(t, retInitVal, accepts, fuel - 1)
              [] k = "Pointer" -> LangTypePointer(t, retInitVal, accepts, fuel - 1)
              [] k = "Signature" -> Txt(Pick(retInitVal, "null", "Closure"))
              [] k = "*ssa.opaqueType" -> Txt(Pick(retInitVal, "null", "Dynamic"))
              [] OTHER -> LogError(Txt("UNKNOWN_LANGTYPE")))

(***************************************************************************)
(* Convert(register, langType, destType, v, errorInfo): the statement that *)
(* stores v, converted to destType, in register.  langType is the lowered  *)
(* name of destType.  A value v is [name, type].                           *)
(***************************************************************************)

\* l.IndirectValue(v, errorInfo): the Haxe expression that holds v.
IndirectValue(v) == v.name

\* The Force routine that wraps a value to the width and signedness of a kind.
ForceName(bk) ==
    CASE bk = "Int8" -> "Force.toInt8("
      [] bk = "Int16" -> "Force.toInt16("
      [] bk \in {"Int32", "Int"} -> "Force.toInt32("
      [] bk = "Uint8" -> "Force.toUint8("
      [] bk = "Uint16" -> "Force.toUint16("
      [] bk \in {"Uint32", "Uint"} -> "Force.toUint32("
      [] OTHER -> ""

\* l.intTypeCoersion(t, v, errorInfo): v wrapped to the width and signedness of t.
intTypeCoersion(t, v) ==
    LET f == ForceName(TT[Underlying(t)].bk)
    IN  IF f = "" THEN v ELSE f \o v \o ")"

\* x.(*types.Basic), x.(*types.Slice): the assertion holds
IsBasic(t) == TT[t].kind = "Basic"
IsSlice(t) == TT[t].kind = "Slice"

\* register + "=" + expr + ";"
Assign(register, expr) == Txt(register \o "=" \o expr \o ";")

\* _r is filled from one rune by the runtime and copied into register
RuneToString(register, rt, arg) ==
    Txt("{var _r:Slice=" \o rt \o ".callFromRT(this._goroutine," \o arg \o ");"
      \o register \o "=\"\";for(_i in 0..._r.len())"
      \o register \o "+=String.fromCharCode(_r.itemAddr(_i).load_int32(" \o "));};")

\* switch <slice type>.Elem().Underlying().(*types.Basic).Kind(): rune, byte, default
SliceElemCase(sl, onRune, onByte, otherwise) ==
    IF ~IsSlice(sl) \/ ~IsBasic(Underlying(TT[sl].elem)) THEN GoPanic
    ELSE LET k == TT[Underlying(TT[sl].elem)].bk
         IN  CASE k = "Int32" -> onRune      \* types.Rune = types.Int32
               [] k = "Uint8" -> onByte      \* types.Byte = types.Uint8
               [] OTHER -> otherwise

\* if <t>.(*types.Basic).Info()&types.IsUnsigned != 0 { a } else b
UnsignedCase(t, a, b) ==
    IF ~IsBasic(t) THEN GoPanic ELSE IF IsUnsigned(t) THEN a ELSE b

ConvertToString(register, srcTyp, vu, val) ==
    CASE srcTyp = "Slice" ->
            SliceElemCase(vu,
                RuneToString(register, "Go_haxegoruntime_RRunes2RRaw", val),
                Assign(register, "Force.toRawString(this._goroutine," \o val \o ")"),
                LogError(Txt("")))
      [] srcTyp = "Int" ->
            RuneToString(register, "Go_haxegoruntime_RRune2RRaw", val)
      [] srcTyp = "GOint64" ->
            RuneToString(register, "Go_haxegoruntime_RRune2RRaw",
                         "GOint64.toInt(" \o val \o ")")
      [] srcTyp = "Dynamic" -> Assign(register, "cast(" \o val \o ",String)")
      [] OTHER -> LogError(Txt(""))

ConvertToSlice(register, srcTyp, du, val) ==
    IF srcTyp # "String" THEN LogError(Txt(""))
    ELSE SliceElemCase(du,
            Assign(register,
                   "Go_haxegoruntime_UUTTFF8toRRunes.callFromRT(this._goroutine,Force.toUTF8slice(this._goroutine,"
                   \o val \o "))"),
            Assign(register, "Force.toUTF8slice(this._goroutine," \o val \o ")"),
            LogError(Txt("")))

\* the value to store in an Int register, before the destination's coercion
ConvertToIntValue(langType, srcTyp, val) ==
    CASE srcTyp = "GOint64" -> "GOint64.toInt(" \o val \o ")"
      [] srcTyp = "Float" ->
            "{var _f:Float=" \o val \o ";_f>=0?Math.floor(_f):Math.ceil(_f);}"
      [] OTHER -> "cast(" \o val \o "," \o langType \o ")"

ConvertToInt(register, langType, destType, srcTyp, val) ==
    Assign(register, intTypeCoersion(destType, ConvertToIntValue(langType, srcTyp, val)))

ConvertToGOint64(register, langType, srcTyp, du, val) ==
    CASE srcTyp = "Int" -> Assign(register, "GOint64.ofInt(" \o val \o ")")
      [] srcTyp = "Float" ->
            UnsignedCase(du,
                Assign(register, "GOint64.ofUFloat(" \o val \o ")"),
                Assign(register, "GOint64.ofFloat(" \o val \o ")"))
      [] srcTyp = "Dynamic" -> Assign(register, val)
      [] OTHER -> Assign(register, "cast(" \o val \o "," \o langType \o ")")

\* ConvertToFloat gone wrong: the destination's signedness picks the routine.
ConvertToFloatByDestination(register, langType, srcTyp, vu, du, val) ==
    IF srcTyp = "GOint64"
    THEN UnsignedCase(du,
            Assign(register, "GOint64.toUFloat(" \o val \o ")"),
            Assign(register, "GOint64.toFloat(" \o val \o ")"))
    ELSE Assign(register, val)

ConvertToFloat(register, langType, srcTyp, vu, du, val) ==
    CASE srcTyp = "GOint64" ->
            UnsignedCase(vu,
                Assign(register, "GOint64.toUFloat(" \o val \o ")"),
                Assign(register, "GOint64.toFloat(" \o val \o ")"))
      [] srcTyp = "Int" ->
            UnsignedCase(vu,
                Assign(register, "GOint64.toUFloat(GOint64.make(0," \o val \o "))"),
                Assign(register, val))
      [] srcTyp = "Float" ->
            IF ~IsBasic(vu) THEN GoPanic
            ELSE IF TT[vu].bk = "Float64"
            THEN IF ~IsBasic(du) THEN GoPanic
                 ELSE IF TT[du].bk = "Float32"
                 THEN Assign(register, "Force.toFloat32(" \o val \o ")")
                 ELSE Assign(register, val)
            ELSE Assign(register, val)
      [] OTHER -> Assign(register, "cast(" \o val \o "," \o langType \o ")")

\* srcTyp == langType && langType != "Float": no cast required
SameHaxeType(srcTyp, langType) == srcTyp = langType /\ langType # "Float"

ConvertBody(register, langType, destType, v, srcTyp) ==
    LET val == IndirectValue(v)
        vu == Underlying(v.type)
        du == Underlying(destType)
    IN  IF SameHaxeType(srcTyp, langType) THEN Assign(register, val)
        ELSE CASE langType = "Dynamic" ->
                    Assign(register, IF srcTyp = "GOint64"
                                     THEN "GOint64.toInt(" \o val \o ")"
                                     ELSE val)
               [] langType = "String" -> ConvertToString(register, srcTyp, vu, val)
               [] langType = "Slice" -> ConvertToSlice(register, srcTyp, du, val)
               [] langType = "Int" ->
                    ConvertToInt(register, langType, destType, srcTyp, val)
               [] langType = "GOint64" ->
                    ConvertToGOint64(register, langType, srcTyp, du, val)
               [] langType = "Float" ->
                    ConvertToFloat(register, langType, srcTyp, vu, du, val)
               [] langType = "UnsafePointer" -> LogWarning(Assign(register, val))
               [] OTHER ->
                    IF HasPrefix(srcTyp, "Array<")
                    THEN LogError(Txt(""))
                    ELSE Assign(register, "cast(" \o val \o "," \o langType \o ")")

Convert(register, langType, destType, v, accepts) ==
    LET src == LangType(Underlying(v.type), FALSE, accepts, MaxDepth)
    IN  IF src.ovf THEN src
        ELSE Cat([src EXCEPT !.text = ""],
                 ConvertBody(register, langType, destType, v, src.text))

(***************************************************************************)
(* ChangeType(register, regTyp, v, errorInfo): the statement that stores   *)
(* v in register under the type regTyp.  A value that is a function, an    *)
(* ssa.Function, is [name, type, func, recv, pkg, fname]: recv is the      *)
(* receiver's type as text ("" for none), pkg the package's name ("" for   *)
(* none).                                                                  *)
(***************************************************************************)

\* l.LangName(p, o)
LangName(p, o) == MakeID(p) \o "_" \o MakeID(o)

\* v.(ssa.Value).(type) is *ssa.Function
IsFunction(v) == "func" \in DOMAIN v

\* case *ssa.Function: the closure of the function, named by receiver or package
ChangeTypeOfFunction(register, v) ==
    LET pf == IF v.recv # "" THEN v.recv ELSE v.pkg
    IN  Txt(register \o "=" \o "new Closure(Go_" \o LangName(pf, v.fname) \o ".call,[]);")

\* default: the Haxe class first, then the unsafe pointer, then the plain copy
ChangeTypeOfValue(register, regTyp, v, accepts) ==
    LET hType == getHaxeClass(String(regTyp))
        vu == Underlying(v.type)
    IN  IF hType # ""
        THEN IF TT[vu].kind = "Interface"
             THEN Txt(register \o "=" \o IndirectValue(v) \o ".val;")
             ELSE Txt(register \o "=cast " \o IndirectValue(v) \o ";")
        ELSE IF TT[vu].kind = "Basic" /\ TT[vu].bk = "UnsafePointer"
        THEN CatAll(<<Txt(register \o "="), LangType(regTyp, TRUE, accepts, MaxDepth),
                      Txt(";")>>)
        ELSE Txt(register \o "=" \o IndirectValue(v) \o ";")

ChangeType(register, regTyp, v, accepts) ==
    IF IsFunction(v) THEN ChangeTypeOfFunction(register, v)
    ELSE ChangeTypeOfValue(register, regTyp, v, accepts)

(***************************************************************************)
(* The lowering calls the instruction emitter makes.                       *)
(***************************************************************************)

\* The types a conversion is asked between.
ConvTypes ==
    {"int", "int8", "uint8", "uint32", "int64", "uint64", "float32", "float64", "string",
     "[]uint8", "[]int32", "[]int64", "[]main.S", "uintptr", "unsafe.Pointer", "main.T",
     "main.L", "*main.S", "interface{}", "untyped int", "(int64)", "alien"}

\* The register a converted value is stored in.
Registers == {"_t1"}

\* A call the emitter is about to make, and the same call once it has returned.
LangTypeRequest(t, retInitVal, accepts) ==
    [fn |-> "LangType", done |-> FALSE, t |-> t, retInitVal |-> retInitVal,
     accepts |-> accepts]

\* The emitter passes the lowered name of the destination type as langType.
ConvertRequest(register, destType, v, accepts) ==
    [fn |-> "Convert", done |-> FALSE, register |-> register,
     langType |-> LangType(destType, FALSE, accepts, MaxDepth).text,
     destType |-> destType, v |-> v, accepts |-> accepts]

\* The types a type change is asked between, and the functions one is asked of: a
\* method, a function of a package, a function of no package.
ChangeTypes ==
    {"unsafe.Pointer", "main.P", "_js.Xptr", "int", "main.T", "interface{}", "main.I",
     "_js.Xdom_Node", "*main.S"}

Functions ==
    {[name |-> "_f", type |-> "func()", func |-> TRUE, recv |-> r[1], pkg |-> r[2],
      fname |-> "f"] : r \in {<<"main.T", "main">>, <<"", "main">>, <<"", "">>}}

ChangeTypeRequest(register, regTyp, v, accepts) ==
    [fn |-> "ChangeType", done |-> FALSE, register |-> register, regTyp |-> regTyp,
     v |-> v, accepts |-> accepts]

Requests ==
    {LangTypeRequest(t, r, a) : t \in Types, r \in BOOLEAN, a \in BOOLEAN}
    \cup {ConvertRequest(reg, d, [name |-> "_v", type |-> vt], a) :
            reg \in Registers, d \in ConvTypes, vt \in ConvTypes, a \in BOOLEAN}
    \cup {ChangeTypeRequest(reg, d, v, a) :
            reg \in Registers, d \in ChangeTypes \cup {"func()"},
            v \in {[name |-> "_v", type |-> vt] : vt \in ChangeTypes} \cup Functions,
            a \in BOOLEAN}

Returned(req, ret) == [req EXCEPT !.done = TRUE] @@ [ret |-> ret]

LangTypeCall ==
    /\ last.fn = "LangType" /\ ~last.done
    /\ last' = Returned(last, LangType(last.t, last.retInitVal, last.accepts, MaxDepth))
    /\ UNCHANGED <<TypesEncountered, NextTypeID, emitted, LanguageList,
                   languageListAppendMutex, pc, local>>

ConvertCall ==
    /\ last.fn = "Convert" /\ ~last.done
    /\ last' = Returned(last, Convert(last.register, last.langType, last.destType, last.v,
                                      last.accepts))
    /\ UNCHANGED <<TypesEncountered, NextTypeID, emitted, LanguageList,
                   languageListAppendMutex, pc, local>>

ChangeTypeCall ==
    /\ last.fn = "ChangeType" /\ ~last.done
    /\ last' = Returned(last, ChangeType(last.register, last.regTyp, last.v, last.accepts))
    /\ UNCHANGED <<TypesEncountered, NextTypeID, emitted, LanguageList,
                   languageListAppendMutex, pc, local>>

(***************************************************************************)
(* The type registry (pogo.TypesEncountered, pogo.NextTypeID).             *)
(***************************************************************************)

\* pte.At(t): the ID of t, or nil (0 stands for nil: no type has that ID)
At(pte, t) == IF t \in DOMAIN pte THEN pte[t] ELSE 0

\* pogo.LogTypeUse(t): the ID of t as text; a type met for the first time gets the
\* next ID.  It yields the registry, the counter and the text.
LogTypeUse(pte, next, t) ==
    IF t \in DOMAIN pte
    THEN [pte |-> pte, next |-> next, ret |-> Itoa(pte[t])]
    ELSE [pte |-> pte @@ (t :> next), next |-> next + 1, ret |-> Itoa(next)]

(***************************************************************************)
(* The front end's relations on types (go/types), on the table above.      *)
(***************************************************************************)

\* types.Identical(x, y): two handles are two different types.
Identical(x, y) == x = y

\* A type with a name of its own: a named type or a basic one.
HasName(t) == TT[t].kind \in {"Named", "Basic"}

\* types.AssignableTo(V, T): identical types; identical underlying types of which
\* one has no name; any type to an interface without methods; nil to a reference.
AssignableTo(V, T) ==
    \/ Identical(V, T)
    \/ Identical(Underlying(V), Underlying(T)) /\ (~HasName(V) \/ ~HasName(T))
    \/ Underlying(T) = "interface{}"
    \/ /\ TT[V].bk = "UntypedNil"
       /\ TT[Underlying(T)].kind \in {"Pointer", "Signature", "Slice", "Map", "Chan",
                                      "Interface"}

\* haxeStdSizes.Alignof(t)
Alignof(t) == IF Sizeof(t) = 0 THEN 1 ELSE IF Sizeof(t) > 4 THEN 4 ELSE Sizeof(t)

\* The method set of a type, types.NewMethodSet(t): each method's name and the name
\* of its package ("" for a method with no package).
MethodSet(t) ==
    CASE t = "main.D#1" -> <<[name |-> "String", pkg |-> "main"]>>
      [] t = "main.L" -> <<[name |-> "Len", pkg |-> "main"], [name |-> "Less", pkg |-> "main"]>>
      [] t = "_js.Xdom_Node" -> <<[name |-> "Click", pkg |-> "_js"]>>
      [] t = "main.T" -> <<[name |-> "Error", pkg |-> "main"]>>
      [] t = "main.D#3" -> <<[name |-> "Error", pkg |-> ""]>>
      [] OTHER -> <<>>

\* pogo.TypesWithMethodSets(): the types whose method sets the program needs.
TypesWithMethodSets == <<"main.D#1", "main.L", "_js.Xdom_Node", "main.T", "main.D#3">>

(***************************************************************************)
(* EmitTypeInfo: the tables of the generated class TypeInfo.               *)
(***************************************************************************)

\* strings.Trim(v, "\""): the quotes at both ends are dropped
RECURSIVE TrimQuotes(_)
TrimQuotes(v) ==
    IF Len(v) > 0 /\ Ch(v, 1) = "\"" THEN TrimQuotes(Tail(v))
    ELSE IF Len(v) > 0 /\ Ch(v, Len(v)) = "\"" THEN TrimQuotes(SubSeq(v, 1, Len(v) - 1))
    ELSE v

\* the loop of preprocessTypeName over the rest of the content
RECURSIVE EscapeOrphans(_, _)
EscapeOrphans(content, hadbackslash) ==
    IF Len(content) = 0 THEN ""
    ELSE LET c == Ch(content, 1)
             rest == Tail(content)
         IN  IF hadbackslash THEN c \o EscapeOrphans(rest, FALSE)
             ELSE IF c = "\"" THEN "\\\"" \o EscapeOrphans(rest, FALSE)
             ELSE IF c = "\\" THEN c \o EscapeOrphans(rest, TRUE)
             ELSE c \o EscapeOrphans(rest, FALSE)

preprocessTypeName(v) == EscapeOrphans(TrimQuotes(v), FALSE)

\* The quote of a Go raw string: ' stands for the back quote, which a TLA+ string
\* cannot hold.
RawQuote == "'"

\* haxeStringConst(sconst, position): the Haxe string constant for a quoted Go one.
haxeStringConst(sconst) == "\"" \o SubSeq(sconst, 2, Len(sconst) - 1) \o "\""

\* reflect.Kind, as %d prints it
ReflectKind(k) ==
    CASE k = "Bool" -> 1 [] k = "Int" -> 2 [] k = "Int8" -> 3 [] k = "Int16" -> 4
      [] k = "Int32" -> 5 [] k = "Int64" -> 6 [] k = "Uint" -> 7 [] k = "Uint8" -> 8
      [] k = "Uint16" -> 9 [] k = "Uint32" -> 10 [] k = "Uint64" -> 11
      [] k = "Uintptr" -> 12 [] k = "Float32" -> 13 [] k = "Float64" -> 14
      [] k = "Complex64" -> 15 [] k = "Complex128" -> 16 [] k = "Array" -> 17
      [] k = "Chan" -> 18 [] k = "Signature" -> 19 [] k = "Interface" -> 20
      [] k = "Map" -> 21 [] k = "Pointer" -> 22 [] k = "Slice" -> 23
      [] k = "String" -> 24 [] k = "Struct" -> 25 [] k = "UnsafePointer" -> 26

\* t.(*types.Named).Obj().Name(): the type's name without its package
ObjName(t) == LET bits == Split(String(t), ".") IN bits[Len(bits)]

\* getTypeInfo(t, tname): fieldAlign, kind and name; fieldAlign is never assigned.
\* A basic kind or a type outside the switch panics.
RECURSIVE getTypeInfo(_, _)
getTypeInfo(t, tname) ==
    LET k == TT[t].kind
        res(kind) == [fieldAlign |-> 0, kind |-> ReflectKind(kind), name |-> tname,
                      panic |-> FALSE]
        bad == [fieldAlign |-> 0, kind |-> 0, name |-> tname, panic |-> TRUE]
    IN  CASE k = "Basic" ->
                IF TT[t].bk \in {"Bool", "Int", "Int8", "Int16", "Int32", "Int64", "Uint",
                                 "Uint8", "Uint16", "Uint32", "Uint64", "Uintptr",
                                 "Float32", "Float64", "Complex64", "Complex128",
                                 "UnsafePointer", "String"}
                THEN res(TT[t].bk) ELSE bad
          [] k \in {"Array", "Chan", "Signature", "Interface", "Map", "Pointer", "Slice",
                    "Struct"} -> res(k)
          [] k = "Named" ->
                getTypeInfo(Underlying(t), IF tname = "" THEN ObjName(t) ELSE tname)
          [] OTHER -> bad

\* typesByID := make([]types.Type, pogo.NextTypeID); typesByID[v] = pteKeys[k] for
\* every key.  Go's index i is position i + 1 here; "nil" is an entry never set.
RECURSIVE FillTypesByID(_, _, _, _)
FillTypesByID(arr, pte, pteKeys, k) ==
    IF k > Len(pteKeys) THEN arr
    ELSE FillTypesByID([arr EXCEPT ![pte[pteKeys[k]] + 1] = pteKeys[k]], pte, pteKeys, k + 1)

\* TypesByID gone wrong: the table is filled from index 0.
TypesByIDFromZero(pte, next, pteKeys) ==
    FillTypesByID([i \in 1..next |-> "nil"], [k \in DOMAIN pte |-> pte[k] - 1], pteKeys, 1)

TypesByID(pte, next, pteKeys) == FillTypesByID([i \in 1..next |-> "nil"], pte, pteKeys, 1)

\* one entry of the emitted array typesByID
TypeEntry(t) ==
    IF t = "nil"
    THEN [isValid |-> FALSE, size |-> 0, align |-> 0, fieldAlign |-> 0, kind |-> 0,
          stringForm |-> "\"\"", name |-> "\"\""]
    ELSE LET info == getTypeInfo(t, "")
         IN  [isValid |-> TRUE, size |-> Sizeof(t), align |-> Alignof(t),
              fieldAlign |-> info.fieldAlign, kind |-> info.kind,
              stringForm |-> haxeStringConst("\"" \o preprocessTypeName(String(t)) \o "\""),
              name |-> haxeStringConst("\"" \o info.name \o "\"")]

\* the IDs isHaxeClass answers true for
HaxeClassIDs(pte, pteKeys) ==
    {pte[pteKeys[k]] : k \in {j \in 1..Len(pteKeys) : getHaxeClass(String(pteKeys[j])) # ""}}

\* the key a later type with a name already used is emitted under
DuplicateName(nam, v) ==
    SubSeq(nam, 1, Len(nam) - 1) \o " (duplicate type name! this id=" \o Itoa(v) \o ")\""

\* TypIDs gone wrong: a name met is not remembered.
RECURSIVE TypIDsForgetful(_, _, _, _)
TypIDsForgetful(pte, pteKeys, k, deDup) ==
    IF k > Len(pteKeys) THEN <<>>
    ELSE LET v == pte[pteKeys[k]]
             nam == haxeStringConst(RawQuote \o preprocessTypeName(String(pteKeys[k]))
                                    \o RawQuote)
         IN  IF Len(nam) # 0
             THEN IF nam \in deDup
                  THEN <<<<DuplicateName(nam, v), v>>>>
                       \o TypIDsForgetful(pte, pteKeys, k + 1, deDup)
                  ELSE <<<<nam, v>>>> \o TypIDsForgetful(pte, pteKeys, k + 1, deDup)
             ELSE TypIDsForgetful(pte, pteKeys, k + 1, deDup)

\* the entries nam => v of the emitted map typIDs, in order; deDup holds the names met
RECURSIVE TypIDs(_, _, _, _)
TypIDs(pte, pteKeys, k, deDup) ==
    IF k > Len(pteKeys) THEN <<>>
    ELSE LET v == pte[pteKeys[k]]
             nam == haxeStringConst(RawQuote \o preprocessTypeName(String(pteKeys[k]))
                                    \o RawQuote)
         IN  IF Len(nam) # 0
             THEN IF nam \in deDup
                  THEN <<<<DuplicateName(nam, v), v>>>> \o TypIDs(pte, pteKeys, k + 1, deDup)
                  ELSE <<<<nam, v>>>> \o TypIDs(pte, pteKeys, k + 1, deDup \cup {nam})
             ELSE TypIDs(pte, pteKeys, k + 1, deDup)

\* AssignableCases gone wrong: the two types are handed over in the wrong order.
AssignableCasesSwapped(pte, pteKeys) ==
    {<<pte[pteKeys[p[1]]], pte[pteKeys[p[2]]]>> :
        p \in {q \in (1..Len(pteKeys)) \X (1..Len(pteKeys)) :
                /\ pte[pteKeys[q[1]]] # pte[pteKeys[q[2]]]
                /\ AssignableTo(pteKeys[q[2]], pteKeys[q[1]])}}

\* the pairs <<v, t>> that get a "case t: return true" under "case v" in isAssignableTo
AssignableCases(pte, pteKeys) ==
    {<<pte[pteKeys[p[1]]], pte[pteKeys[p[2]]]>> :
        p \in {q \in (1..Len(pteKeys)) \X (1..Len(pteKeys)) :
                /\ pte[pteKeys[q[1]]] # pte[pteKeys[q[2]]]
                /\ AssignableTo(pteKeys[q[1]], pteKeys[q[2]])}}

\* the same for isIdentical
IdenticalCases(pte, pteKeys) ==
    {<<pte[pteKeys[p[1]]], pte[pteKeys[p[2]]]>> :
        p \in {q \in (1..Len(pteKeys)) \X (1..Len(pteKeys)) :
                /\ pte[pteKeys[q[1]]] # pte[pteKeys[q[2]]]
                /\ Identical(pteKeys[q[1]], pteKeys[q[2]])}}

\* the cases of isConcrete: <<t, answer>>
ConcreteCases(pte, pteKeys) ==
    {<<pte[pteKeys[k]], TT[Underlying(pteKeys[k])].kind # "Interface">> :
        k \in 1..Len(pteKeys)}

\* z := l.LangType(pteKeys[T], true, ...); if z == "" { z = "null" }
ZeroValueOf(t, accepts) ==
    LET z == LangType(t, TRUE, accepts, MaxDepth)
    IN  IF z.text = "" THEN [z EXCEPT !.text = "null"] ELSE z

\* the cases of zeroValue: <<t, text>>
ZeroValueCases(pte, pteKeys, accepts) ==
    {<<pte[pteKeys[k]], ZeroValueOf(pteKeys[k], accepts).text>> : k \in 1..Len(pteKeys)}

\* the dispatch cases of one type of TypesWithMethodSets: <<t, method name, wrapper>>
MethodLines(T, t) ==
    LET ms == MethodSet(T)
        pkgName(m) == LET ss == Split(ms[m].pkg, "/") IN ss[Len(ss)]
    IN  {<<t, ms[m].name, "Go_" \o LangName(String(T), ms[m].name) \o ".call">> :
            m \in {j \in 1..Len(ms) : ms[j].pkg # "" /\ ~HasPrefix(pkgName(j), "_")}}

\* the types that get a case in method, and the cases under them
MethodTypes(pte) ==
    {At(pte, TypesWithMethodSets[k]) :
        k \in {j \in 1..Len(TypesWithMethodSets) : At(pte, TypesWithMethodSets[j]) # 0}}

MethodCases(pte) ==
    UNION {MethodLines(TypesWithMethodSets[k], At(pte, TypesWithMethodSets[k])) :
            k \in {j \in 1..Len(TypesWithMethodSets) : At(pte, TypesWithMethodSets[j]) # 0}}

\* EmitTypeInfo panics: an ID outside typesByID, a type getTypeInfo does not know, or a
\* zero value whose lowering does not end.
EmitPanics(pte, next, pteKeys, accepts) ==
    \/ \E k \in 1..Len(pteKeys) : pte[pteKeys[k]] < 0 \/ pte[pteKeys[k]] >= next
    \/ \E k \in 1..Len(pteKeys) : getTypeInfo(pteKeys[k], "").panic
    \/ \E k \in 1..Len(pteKeys) : ZeroValueOf(pteKeys[k], accepts).ovf

\* pteKeys is pogo.TypesEncountered.Keys(): the keys, in an order that is not specified.
EmitTypeInfo(pte, next, pteKeys, accepts) ==
    IF EmitPanics(pte, next, pteKeys, accepts) THEN [valid |-> FALSE, panic |-> TRUE]
    ELSE LET byID == TypesByID(pte, next, pteKeys)
         IN  [valid |-> TRUE,
              nextTypeID |-> next,
              typesByID |-> [i \in 1..Len(byID) |-> TypeEntry(byID[i])],
              isHaxeClass |-> HaxeClassIDs(pte, pteKeys),
              typIDs |-> TypIDs(pte, pteKeys, 1, {}),
              isAssignableTo |-> AssignableCases(pte, pteKeys),
              isIdentical |-> IdenticalCases(pte, pteKeys),
              isConcrete |-> ConcreteCases(pte, pteKeys),
              zeroValue |-> ZeroValueCases(pte, pteKeys, accepts),
              methodTypes |-> MethodTypes(pte),
              method |-> MethodCases(pte)]

(***************************************************************************)
(* What the generated functions of TypeInfo do when the program runs:      *)
(* return a value, or end in Scheduler.panicFromHaxe.                      *)
(***************************************************************************)
Returns(v) == [panic |-> FALSE, value |-> v]
Panics == [panic |-> TRUE, value |-> "no method found!"]

\* the string a Haxe string constant denotes
HaxeValue(lit) == SubSeq(lit, 2, Len(lit) - 1)

\* getName(id): if(id<0||id>=nextTypeID)return "UNKNOWN"; return typesByID[id].stringForm;
getName(e, id) ==
    IF id < 0 \/ id >= e.nextTypeID THEN Returns("UNKNOWN")
    ELSE Returns(HaxeValue(e.typesByID[id + 1].stringForm))

\* getId(name): typIDs[name]; what a Haxe map gives for a key it does not hold depends
\* on the target (null, or -1 through the catch): the outcomes possible.
getId(e, name) ==
    LET hits == {k \in 1..Len(e.typIDs) : HaxeValue(e.typIDs[k][1]) = name}
    IN  IF hits # {} THEN {Returns(e.typIDs[k][2]) : k \in hits}
        ELSE {Returns("null"), Returns(-1)}

\* isAssignableTo(v, t) and isIdentical(v, t): if(v==t) return true; then the cases
isAssignableTo(e, v, t) == v = t \/ <<v, t>> \in e.isAssignableTo
isIdentical(e, v, t) == v = t \/ <<v, t>> \in e.isIdentical

\* zeroValue(t): the case of t, default: return null
zeroValue(e, t) ==
    IF \E c \in e.zeroValue : c[1] = t
    THEN Returns((CHOOSE c \in e.zeroValue : c[1] = t)[2])
    ELSE Returns("null")

\* method(t, m): the case of m under the case of t, or the panic after the switch
method(e, t, m) ==
    IF \E c \in e.method : c[1] = t /\ c[2] = m
    THEN Returns((CHOOSE c \in e.method : c[1] = t /\ c[2] = m)[3])
    ELSE Panics

(***************************************************************************)
(* The instructions that box and unbox values: MakeInterface,              *)
(* ChangeInterface and TypeAssert.  Each logs the types it meets in the    *)
(* registry and so yields the registry, the counter and the statement.     *)
(***************************************************************************)

\* MakeInterface(register, regTyp, v, errorInfo)
MakeInterface(pte, next, register, regTyp, v) ==
    LET r == LogTypeUse(pte, next, v.type)
        box == "new Interface(" \o r.ret \o "," \o IndirectValue(v) \o ")"
        ret == IF getHaxeClass(String(regTyp)) # ""
               THEN "Force.toHaxeParam(" \o box \o ")"
               ELSE box
    IN  [pte |-> r.pte, next |-> r.next, text |-> register \o "=" \o ret \o ";"]

\* ChangeInterface(register, regTyp, v, errorInfo)
ChangeInterface(pte, next, register, regTyp, v) ==
    LET r1 == LogTypeUse(pte, next, regTyp)
        r2 == LogTypeUse(r1.pte, r1.next, v.type)
    IN  [pte |-> r2.pte, next |-> r2.next,
         text |-> register \o "=Interface.change(" \o r2.ret \o "," \o IndirectValue(v)
                  \o ");"]

\* TypeAssert gone wrong: the assert-or-abort form whatever CommaOk is.
TypeAssertAlwaysAborts(pte, next, register, v, AssertedType, CommaOk) ==
    LET r == LogTypeUse(pte, next, AssertedType)
    IN  IF register = "" THEN [pte |-> pte, next |-> next, text |-> ""]
        ELSE [pte |-> r.pte, next |-> r.next,
              text |-> register \o "=Interface.assert(" \o r.ret \o ","
                       \o IndirectValue(v) \o ");"]

\* TypeAssert(register, v, AssertedType, CommaOk, errorInfo)
TypeAssert(pte, next, register, v, AssertedType, CommaOk) ==
    LET r == LogTypeUse(pte, next, AssertedType)
    IN  IF register = "" THEN [pte |-> pte, next |-> next, text |-> ""]
        ELSE IF CommaOk
        THEN [pte |-> r.pte, next |-> r.next,
              text |-> register \o "=Interface.assertOk(" \o r.ret \o ","
                       \o IndirectValue(v) \o ");"]
        ELSE [pte |-> r.pte, next |-> r.next,
              text |-> register \o "=Interface.assert(" \o r.ret \o ","
                       \o IndirectValue(v) \o ");"]

\* The types of the values boxed, the interface types boxed into, the types asserted,
\* and the registers assigned ("" where the result is not used).
BoxedTypes == {"int", "main.D#1", "main.T", "_js.Xdom_Node"}
InterfaceTypes == {"interface{}", "main.I", "_js.XTarget"}
AssertedTypes == {"int", "main.D#1", "_js.Xdom_Node", "main.I"}
AssertRegisters == {"", "_t1"}

\* A call is made while the registry has room for the types it logs.
HasRoom(r) == r.next <= MaxTypeIDs + 1

MakeInterfaceCall(regTyp, v) ==
    LET r == MakeInterface(TypesEncountered, NextTypeID, "_t1", regTyp, v)
    IN  /\ HasRoom(r)
        /\ TypesEncountered' = r.pte
        /\ NextTypeID' = r.next
        /\ last' = [fn |-> "MakeInterface", done |-> TRUE, register |-> "_t1",
                    regTyp |-> regTyp, v |-> v, ret |-> r.text]
        /\ UNCHANGED <<emitted, LanguageList, languageListAppendMutex, pc, local>>

ChangeInterfaceCall(regTyp, v) ==
    LET r == ChangeInterface(TypesEncountered, NextTypeID, "_t1", regTyp, v)
    IN  /\ HasRoom(r)
        /\ TypesEncountered' = r.pte
        /\ NextTypeID' = r.next
        /\ last' = [fn |-> "ChangeInterface", done |-> TRUE, register |-> "_t1",
                    regTyp |-> regTyp, v |-> v, ret |-> r.text]
        /\ UNCHANGED <<emitted, LanguageList, languageListAppendMutex, pc, local>>

TypeAssertCall(register, v, AssertedType, CommaOk) ==
    LET r == TypeAssert(TypesEncountered, NextTypeID, register, v, AssertedType, CommaOk)
    IN  /\ HasRoom(r)
        /\ TypesEncountered' = r.pte
        /\ NextTypeID' = r.next
        /\ last' = [fn |-> "TypeAssert", done |-> TRUE, register |-> register, v |-> v,
                    AssertedType |-> AssertedType, CommaOk |-> CommaOk, ret |-> r.text]
        /\ UNCHANGED <<emitted, LanguageList, languageListAppendMutex, pc, local>>

(***************************************************************************)
(* The registry's life: types are logged while code is emitted, and the    *)
(* type information is emitted once, at the end.                           *)
(***************************************************************************)

\* The types the program logs.
RegTypes ==
    {"main.D#1", "main.D#2", "main.D#3", "main.L", "[]uint8", "interface{}", "_js.Xdom_Node"}

\* every order Keys() may give the keys in
KeyOrders(pte) ==
    {s \in [1..Cardinality(DOMAIN pte) -> DOMAIN pte] :
        \A i, j \in DOMAIN s : i # j => s[i] # s[j]}

LogTypeUseCall(t) ==
    /\ ~emitted.valid
    /\ NextTypeID <= MaxTypeIDs
    /\ LET r == LogTypeUse(TypesEncountered, NextTypeID, t)
       IN  /\ TypesEncountered' = r.pte
           /\ NextTypeID' = r.next
           /\ last' = [fn |-> "LogTypeUse", done |-> TRUE, t |-> t, ret |-> r.ret]
    /\ UNCHANGED <<emitted, LanguageList, languageListAppendMutex, pc, local>>

EmitTypeInfoCall(pteKeys, accepts) ==
    /\ ~emitted.valid
    /\ emitted' = EmitTypeInfo(TypesEncountered, NextTypeID, pteKeys, accepts)
    /\ last' = [fn |-> "EmitTypeInfo", done |-> TRUE, pteKeys |-> pteKeys]
    /\ UNCHANGED <<TypesEncountered, NextTypeID, LanguageList, languageListAppendMutex,
                   pc, local>>

(***************************************************************************)
(* The backend registry: LanguageList and the mutex that guards appends.   *)
(* Each backend's initializer appends its entry: it takes the mutex, reads *)
(* the slice, stores the slice with its entry added, and gives the mutex   *)
(* back.                                                                   *)
(***************************************************************************)

\* NewLanguageList gone wrong: make([]LanguageEntry, 1, 10), a list with an empty entry.
NewLanguageListOfOne == <<[name |-> "", by |-> 0]>>

\* var LanguageList = make([]LanguageEntry, 0, 10)
NewLanguageList == <<>>

Initializers == 1..MaxInits

\* LanguageName() of the backend each initializer registers; two share a name.
LanguageNames == <<"haxe", "js", "haxe", "cpp", "java", "php">>

LanguageEntry(p) == [name |-> LanguageNames[p], by |-> p]

Lock(p) ==
    /\ pc[p] = "start"
    /\ languageListAppendMutex = 0
    /\ languageListAppendMutex' = p
    /\ pc' = [pc EXCEPT ![p] = "locked"]
    /\ UNCHANGED <<last, TypesEncountered, NextTypeID, emitted, LanguageList, local>>

\* append(LanguageList, entry) reads the slice ...
AppendRead(p) ==
    /\ pc[p] = "locked"
    /\ local' = [local EXCEPT ![p] = LanguageList]
    /\ pc' = [pc EXCEPT ![p] = "read"]
    /\ UNCHANGED <<last, TypesEncountered, NextTypeID, emitted, LanguageList,
                   languageListAppendMutex>>

\* ... and LanguageList = stores the longer one
AppendWrite(p) ==
    /\ pc[p] = "read"
    /\ LanguageList' = Append(local[p], LanguageEntry(p))
    /\ pc' = [pc EXCEPT ![p] = "written"]
    /\ UNCHANGED <<last, TypesEncountered, NextTypeID, emitted, languageListAppendMutex,
                   local>>

Unlock(p) ==
    /\ pc[p] = "written"
    /\ languageListAppendMutex' = 0
    /\ pc' = [pc EXCEPT ![p] = "done"]
    /\ UNCHANGED <<last, TypesEncountered, NextTypeID, emitted, LanguageList, local>>

\* FindTargetLang gone wrong: the last entry of that name is returned.
FindTargetLangLast(list, s) ==
    LET matches == {k \in 0..(Len(list) - 1) : list[k + 1].name = s}
    IN  IF matches = {}
        THEN [k |-> -1, e |-> "Target Language Not Found: " \o s]
        ELSE [k |-> CHOOSE k \in matches : \A j \in matches : j <= k, e |-> "nil"]

\* for k, v = range LanguageList { if v.LanguageName() == s { return } }, from index k
RECURSIVE FindFrom(_, _, _)
FindFrom(list, s, k) ==
    IF k >= Len(list) THEN [k |-> -1, e |-> "Target Language Not Found: " \o s]
    ELSE IF list[k + 1].name = s THEN [k |-> k, e |-> "nil"]
    ELSE FindFrom(list, s, k + 1)

\* FindTargetLang(s): the index and the error ("nil" for no error)
FindTargetLang(list, s) == FindFrom(list, s, 0)

\* The names looked up: one registered twice, one registered once, one never.
TargetNames == {"haxe", "cpp", "none"}

\* A lookup is made by the code that runs between the registrations: it does not run
\* while an initializer is inside its append.
FindTargetLangCall(s) ==
    /\ \A p \in Initializers : pc[p] \in {"start", "done"}
    /\ LET r == FindTargetLang(LanguageList, s)
       IN  last' = [fn |-> "FindTargetLang", done |-> TRUE, s |-> s, k |-> r.k, e |-> r.e]
    /\ UNCHANGED <<TypesEncountered, NextTypeID, emitted, LanguageList,
                   languageListAppendMutex, pc, local>>

\* The registry and the backend list as they are when the program starts.
InitRegistry ==
    /\ TypesEncountered = <<>>
    /\ NextTypeID = 1
    /\ emitted = [valid |-> FALSE]

InitLanguages ==
    /\ LanguageList = NewLanguageList
    /\ languageListAppendMutex = 0
    /\ pc = [p \in Initializers |-> "start"]
    /\ local = [p \in Initializers |-> <<>>]

Init ==
    /\ last \in Requests
    /\ InitRegistry
    /\ InitLanguages

Next ==
    \/ LangTypeCall
    \/ ConvertCall
    \/ ChangeTypeCall

Spec == Init /\ [][Next]_vars

InitRegistrySpec ==
    /\ last = [fn |-> "none", done |-> TRUE]
    /\ InitRegistry
    /\ InitLanguages

NextRegistry ==
    \/ \E t \in RegTypes : LogTypeUseCall(t)
    \/ \E pteKeys \in KeyOrders(TypesEncountered), accepts \in BOOLEAN :
            EmitTypeInfoCall(pteKeys, accepts)

SpecRegistry == InitRegistrySpec /\ [][NextRegistry]_vars

NextInstructions ==
    \/ \E regTyp \in InterfaceTypes, t \in BoxedTypes :
            MakeInterfaceCall(regTyp, [name |-> "_v", type |-> t])
    \/ \E regTyp \in InterfaceTypes, t \in InterfaceTypes \ {"_js.XTarget"} :
            ChangeInterfaceCall(regTyp, [name |-> "_v", type |-> t])
    \/ \E register \in AssertRegisters, t \in AssertedTypes, CommaOk \in BOOLEAN :
            TypeAssertCall(register, [name |-> "_v", type |-> "interface{}"], t, CommaOk)

SpecInstructions == InitRegistrySpec /\ [][NextInstructions]_vars

InitLanguagesSpec ==
    /\ last = [fn |-> "none", done |-> TRUE]
    /\ InitRegistry
    /\ InitLanguages

NextLanguages ==
    \/ \E p \in Initializers : Lock(p) \/ AppendRead(p) \/ AppendWrite(p) \/ Unlock(p)
    \/ \E s \in TargetNames : FindTargetLangCall(s)

SpecLanguages == InitLanguagesSpec /\ [][NextLanguages]_vars

(***************************************************************************)
(* Properties of Convert and LangType (specification Spec).                *)
(***************************************************************************)
ConvertReturned == last.fn = "Convert" /\ last.done /\ ~last.ret.panic /\ ~last.ret.ovf
LangTypeReturned == last.fn = "LangType" /\ last.done

\* what Convert computed as the lowered type of its source value
SrcTypOf(req) == LangType(Underlying(req.v.type), FALSE, req.accepts, MaxDepth).text

\* C1: whenever Convert is called with the destination lowered type "Int" and a source
\* of another Go type (another width or signedness, a 64-bit-emulated integer, a float,
\* anything else), the statement it returns stores intTypeCoersion(destType, value) in
\* the register, value being the converted source value.
C1_IntDestinationIsCoerced ==
    (ConvertReturned /\ last.langType = "Int"
        /\ Underlying(last.v.type) # Underlying(last.destType)) =>
        \E value \in {IndirectValue(last.v),
                      ConvertToIntValue(last.langType, SrcTypOf(last), IndirectValue(last.v))} :
            last.ret.text
                = last.register \o "=" \o intTypeCoersion(last.destType, value) \o ";"

\* The text that is sure to fail the Haxe compiler.
IsSentinel(text) == text = "UNKNOWN_LANGTYPE"

\* C2: every call of LangType or Convert that logged an error returned the sentinel:
\* never the empty string, never a statement.
C2_ErrorReturnsSentinel ==
    (last.fn \in {"LangType", "Convert"} /\ last.done /\ last.ret.errs > 0) =>
        IsSentinel(last.ret.text)

\* C7: LangType(t, true) of a pointer type returns null with a single invocation of
\* LangType (the pointee is not lowered), whatever the pointee.
C7_PointerZeroValueInOneStep ==
    (LangTypeReturned /\ TT[last.t].kind = "Pointer" /\ last.retInitVal) =>
        /\ last.ret.text = "null"
        /\ last.ret.calls = 1
        /\ ~last.ret.ovf
        /\ last.ret.errs = 0 /\ last.ret.warns = 0

C7_Witness ==
    LangTypeReturned /\ last.t = "*main.S" /\ last.retInitVal
        /\ TT[TT[last.t].elem].under = "struct{next *main.S}"

\* the fields r0:..,r1:.. of a record, given the lowered text of each element
RECURSIVE PositionalFields(_, _)
PositionalFields(texts, i) ==
    IF i > Len(texts) THEN ""
    ELSE (IF i > 1 THEN "," ELSE "") \o "r" \o Itoa(i - 1) \o ":" \o texts[i]
         \o PositionalFields(texts, i + 1)

\* the length rule of a tuple, given the lowered text of each element
TupleRule(texts) ==
    IF Len(texts) = 0 THEN ""
    ELSE IF Len(texts) = 1 THEN texts[1]
    ELSE "{" \o PositionalFields(texts, 1) \o "}"

TupleReturned == LangTypeReturned /\ TT[last.t].kind = "Tuple" /\ ~last.ret.ovf

\* C9 as stated: a tuple lowers by the length rule, each element contributing what
\* LangType returns for the element type itself.
C9_TupleOfElementTypes ==
    TupleReturned =>
        LET elems == TT[last.t].elems
            texts == [i \in 1..Len(elems) |->
                        LangType(elems[i], last.retInitVal, last.accepts, MaxDepth).text]
        IN  last.ret.text = TupleRule(texts)

\* C9, amended: a tuple of length 0 lowers to the empty text, one of length 1 to what
\* LangType returns for the underlying type of its sole element type, one of length
\* n >= 2 to the record {r0:..,...,r(n-1):..} whose i-th field carries what LangType
\* returns for the underlying type of the i-th element type.
C9_TupleOfUnderlyingTypes ==
    TupleReturned =>
        LET elems == TT[last.t].elems
            texts == [i \in 1..Len(elems) |->
                        LangType(Underlying(elems[i]), last.retInitVal, last.accepts,
                                 MaxDepth).text]
        IN  last.ret.text = TupleRule(texts)

C9_Witness ==
    /\ TupleReturned
    /\ Len(TT[last.t].elems) >= 2
    /\ \E i \in 1..Len(TT[last.t].elems) : getHaxeClass(String(TT[last.t].elems[i])) # ""
    /\ last.ret.text = "{r0:String,r1:Int,r2:Pointer}"

NamedReturned == LangTypeReturned /\ TT[last.t].kind = "Named"
IsMapped(t) == getHaxeClass(String(t)) # ""

\* the zero-value constructor of a Haxe class
ZeroValueConstructor(haxeName) == "Type.createEmptyInstance(" \o haxeName \o ")"

\* C10 as stated: a mapped named type lowers to its Haxe class name, and its zero
\* value to that class's zero-value constructor; an unmapped one lowers as its
\* underlying type; no name starting with "*" is mapped.
C10_MappedZeroValueIsConstructor ==
    /\ NamedReturned =>
        IF IsMapped(last.t)
        THEN last.ret.text = IF last.retInitVal
                             THEN ZeroValueConstructor(getHaxeClass(String(last.t)))
                             ELSE getHaxeClass(String(last.t))
        ELSE last.ret.ovf \/ last.ret.text
                = LangType(TT[last.t].under, last.retInitVal, last.accepts, MaxDepth).text
    /\ \A t \in Types : Ch(String(t), 1) = "*" => getHaxeClass(String(t)) = ""

\* C10, amended: a mapped named type lowers to its Haxe class name, and its zero value
\* to null, without its underlying type being lowered; an unmapped one lowers as its
\* underlying type; no name starting with "*" is mapped.
C10_MappedZeroValueIsNull ==
    /\ NamedReturned =>
        IF IsMapped(last.t)
        THEN /\ last.ret.text = IF last.retInitVal THEN "null"
                                ELSE getHaxeClass(String(last.t))
             /\ last.ret.calls = 1
        ELSE last.ret.ovf \/ last.ret.text
                = LangType(TT[last.t].under, last.retInitVal, last.accepts, MaxDepth).text
    /\ (NamedReturned /\ last.t = "_js.Xdom_Node" /\ ~last.retInitVal) =>
            last.ret.text = "dom.Node"
    /\ (NamedReturned /\ last.t = "_cpp.Xa___b" /\ ~last.retInitVal) =>
            last.ret.text = "a.b"
    /\ (NamedReturned /\ last.t = "main.T" /\ ~last.retInitVal) => last.ret.text = "Int"
    /\ \A t \in Types : Ch(String(t), 1) = "*" => getHaxeClass(String(t)) = ""

C10_Witness ==
    NamedReturned /\ IsMapped(last.t) /\ last.retInitVal /\ last.ret.text = "null"

(***************************************************************************)
(* Properties of the registry and of the emitted tables (SpecRegistry).    *)
(***************************************************************************)
RegisteredIDs == {TypesEncountered[T] : T \in DOMAIN TypesEncountered}
TypeOfID(id) == CHOOSE T \in DOMAIN TypesEncountered : TypesEncountered[T] = id

\* C3: the emitted typesByID has exactly NextTypeID entries; the entry at index i is
\* valid and describes T exactly when T is the registered type with ID i; no two types
\* share an ID; index 0 is the invalid entry and no type has ID 0.
C3_TypesByIDMatchesRegistry ==
    /\ \A A, B \in DOMAIN TypesEncountered :
            TypesEncountered[A] = TypesEncountered[B] => A = B
    /\ \A A \in DOMAIN TypesEncountered :
            TypesEncountered[A] >= 1 /\ TypesEncountered[A] < NextTypeID
    /\ emitted.valid =>
        /\ Len(emitted.typesByID) = NextTypeID
        /\ emitted.nextTypeID = NextTypeID
        /\ ~emitted.typesByID[1].isValid
        /\ \A i \in 0..(NextTypeID - 1) :
            LET entry == emitted.typesByID[i + 1]
            IN  /\ entry.isValid <=> i \in RegisteredIDs
                /\ entry.isValid =>
                    /\ HaxeValue(entry.stringForm) = String(TypeOfID(i))
                    /\ entry.size = Sizeof(TypeOfID(i))
                /\ ~entry.isValid => entry.stringForm = "\"\"" /\ entry.size = 0

C3_Witness ==
    emitted.valid /\ NextTypeID = 4 /\ Cardinality(RegisteredIDs) = 3

\* the key of a name emitted as a duplicate, carrying its ID
IsDuplicateKey(key, name, id) ==
    key = "\"" \o name \o " (duplicate type name! this id=" \o Itoa(id) \o ")\""

\* C4: the keys of the emitted typIDs are pairwise distinct; every registered type has
\* one entry, with its own ID; of the types with one name, the first in key order is
\* under the plain name and each later one under a key tagged as a duplicate that
\* carries its own ID.
C4_TypIDsKeysDistinct ==
    emitted.valid =>
        LET ids == emitted.typIDs
            keys == last.pteKeys
        IN  /\ Len(ids) = Len(keys)
            /\ \A i, j \in 1..Len(ids) : i # j => ids[i][1] # ids[j][1]
            /\ \A k \in 1..Len(keys) :
                LET first == \A j \in 1..(k - 1) : String(keys[j]) # String(keys[k])
                IN  /\ ids[k][2] = TypesEncountered[keys[k]]
                    /\ first => ids[k][1] = "\"" \o String(keys[k]) \o "\""
                    /\ ~first => IsDuplicateKey(ids[k][1], String(keys[k]), ids[k][2])

C4_Witness ==
    /\ emitted.valid
    /\ Cardinality({k \in 1..Len(emitted.typIDs) :
            IsDuplicateKey(emitted.typIDs[k][1], "main.D", emitted.typIDs[k][2])}) = 2

\* C5: in the emitted metadata isIdentical(A,B) implies isAssignableTo(A,B) for all
\* registered A, B; isIdentical(A,A) holds; and for distinct IDs the emitted cases are
\* exactly the pairs on which the front end's Identical / AssignableTo holds.
C5_IdenticalImpliesAssignable ==
    emitted.valid =>
        \A A, B \in RegisteredIDs :
            /\ isIdentical(emitted, A, B) => isAssignableTo(emitted, A, B)
            /\ isIdentical(emitted, A, A)
            /\ A # B =>
                /\ <<A, B>> \in emitted.isIdentical <=> Identical(TypeOfID(A), TypeOfID(B))
                /\ <<A, B>> \in emitted.isAssignableTo
                        <=> AssignableTo(TypeOfID(A), TypeOfID(B))

C5_Witness ==
    /\ emitted.valid
    /\ \E A, B \in RegisteredIDs :
        /\ A # B
        /\ isAssignableTo(emitted, A, B) /\ ~isAssignableTo(emitted, B, A)
        /\ isIdentical(emitted, A, A) /\ ~isIdentical(emitted, A, B)

\* IDs and names the registry does not hold
UnknownIDs == {-1, 0, NextTypeID, NextTypeID + 1}
UnknownNames == {"no.such.Type", ""}
UnknownMethods == {"NoSuchMethod"}

\* C6: in the generated TypeInfo every lookup with an ID or a name that is not
\* registered, or with a method name a type does not have, ends in the panic path.
C6_UnknownLookupsPanic ==
    emitted.valid =>
        /\ \A id \in UnknownIDs :
            /\ getName(emitted, id).panic
            /\ zeroValue(emitted, id).panic
            /\ \A m \in UnknownMethods : method(emitted, id, m).panic
        /\ \A name \in UnknownNames : \A outcome \in getId(emitted, name) : outcome.panic
        /\ \A id \in RegisteredIDs, m \in UnknownMethods : method(emitted, id, m).panic

(***************************************************************************)
(* Properties of the backend registry (SpecLanguages).                     *)
(***************************************************************************)
Appended == {p \in Initializers : pc[p] \in {"written", "done"}}

\* C8: appends are made holding the mutex, so under every interleaving LanguageList
\* holds exactly one entry per registration made: none lost, doubled or overwritten.
C8_OneEntryPerRegistration ==
    /\ \A p \in Initializers :
            pc[p] \in {"locked", "read", "written"} => languageListAppendMutex = p
    /\ Len(LanguageList) = Cardinality(Appended)
    /\ \A p \in Appended :
            Cardinality({k \in 1..Len(LanguageList) : LanguageList[k] = LanguageEntry(p)}) = 1

C8_Witness ==
    /\ \A p \in Initializers : pc[p] = "done"
    /\ Len(LanguageList) = MaxInits

(***************************************************************************)
(* Properties of the lowering of integer kinds (specification Spec).       *)
(***************************************************************************)
\* the basic kinds with types.IsInteger set, by width
NarrowIntegerKinds ==
    {"Int", "Int8", "Int16", "Int32", "Uint", "Uint8", "Uint16", "Uint32", "UntypedRune"}
WideIntegerKinds == {"Int64", "Uint64"}
IntegerKinds == NarrowIntegerKinds \cup WideIntegerKinds \cup {"Uintptr", "UntypedInt"}

IntegerReturned ==
    LangTypeReturned /\ TT[last.t].kind = "Basic" /\ TT[last.t].bk \in IntegerKinds

\* C11 as stated: every integer kind of at most 32 bits lowers to Int with zero value 0,
\* both 64-bit kinds lower to GOint64 with zero value GOint64.make(0,0), and no integer
\* kind lowers to anything else.
C11_IntegerKindsIntOrGOint64 ==
    IntegerReturned =>
        IF TT[last.t].bk \in WideIntegerKinds
        THEN last.ret.text = IF last.retInitVal THEN "GOint64.make(0,0)" ELSE "GOint64"
        ELSE last.ret.text = IF last.retInitVal THEN "0" ELSE "Int"

\* C11, amended: the sized integer kinds of at most 32 bits and the untyped rune lower
\* to Int with zero value 0; Int64 and Uint64 lower to GOint64 with zero value
\* GOint64.make(0,0); uintptr lowers to Dynamic with zero value null; the untyped
\* integer lowers to UNTYPED_INT, with a warning; only the last logs anything.
C11_IntegerKindsLowering ==
    IntegerReturned =>
        LET k == TT[last.t].bk
        IN  /\ k \in NarrowIntegerKinds =>
                last.ret.text = IF last.retInitVal THEN "0" ELSE "Int"
            /\ k \in WideIntegerKinds =>
                last.ret.text = IF last.retInitVal THEN "GOint64.make(0,0)" ELSE "GOint64"
            /\ k = "Uintptr" =>
                last.ret.text = IF last.retInitVal THEN "null" ELSE "Dynamic"
            /\ k = "UntypedInt" => last.ret.text = "UNTYPED_INT"
            /\ last.ret.warns = IF k = "UntypedInt" THEN 1 ELSE 0
            /\ last.ret.errs = 0

C11_Witness ==
    /\ IntegerReturned
    /\ last.t = "uint64" /\ last.retInitVal
    /\ last.ret.text = "GOint64.make(0,0)"

(***************************************************************************)
(* Properties of the signed and unsigned conversions (specification Spec). *)
(***************************************************************************)
IsUnsignedBasic(t) ==
    TT[t].kind = "Basic" /\ TT[t].bk \in {"Uint", "Uint8", "Uint16", "Uint32", "Uint64", "Uintptr"}

FloatToInt64Returned ==
    ConvertReturned /\ last.langType = "GOint64" /\ SrcTypOf(last) = "Float"
Int64ToFloatReturned ==
    ConvertReturned /\ last.langType = "Float" /\ SrcTypOf(last) = "GOint64"

\* C12: from a float to a 64-bit-emulated integer Convert emits GOint64.ofUFloat exactly
\* when the destination type is unsigned and GOint64.ofFloat otherwise, whatever the
\* source; from a 64-bit-emulated integer to a float it emits GOint64.toUFloat exactly
\* when the source value's type is unsigned and GOint64.toFloat otherwise, whatever
\* the destination.
C12_SignednessOfTheRightOperand ==
    /\ FloatToInt64Returned =>
        last.ret.text = last.register \o "="
            \o (IF IsUnsignedBasic(Underlying(last.destType))
                THEN "GOint64.ofUFloat(" ELSE "GOint64.ofFloat(")
            \o last.v.name \o ");"
    /\ Int64ToFloatReturned =>
        last.ret.text = last.register \o "="
            \o (IF IsUnsignedBasic(Underlying(last.v.type))
                THEN "GOint64.toUFloat(" ELSE "GOint64.toFloat(")
            \o last.v.name \o ");"

C12_Witness ==
    /\ Int64ToFloatReturned
    /\ last.v.type = "uint64" /\ last.destType = "float32"
    /\ last.ret.text = "_t1=GOint64.toUFloat(_v);"

(***************************************************************************)
(* Properties of ChangeType (specification Spec).                          *)
(***************************************************************************)
ChangeTypeReturned == last.fn = "ChangeType" /\ last.done

\* a source value, not a function, whose underlying type is the unsafe pointer
FromUnsafePointer ==
    /\ ~IsFunction(last.v)
    /\ TT[Underlying(last.v.type)].kind = "Basic"
    /\ TT[Underlying(last.v.type)].bk = "UnsafePointer"

\* C13: every ChangeType of a value with unsafe-pointer underlying type to a named
\* type of that underlying type stores in the register the zero value of the
\* destination, LangType(regTyp, true), and neither copies nor casts the source, the
\* destination native-mapped or not.
C13_UnsafePointerToNamedIsZeroed ==
    (ChangeTypeReturned /\ FromUnsafePointer /\ TT[last.regTyp].kind = "Named"
        /\ Underlying(last.regTyp) = Underlying(last.v.type)) =>
        last.ret.text = last.register \o "="
            \o LangType(last.regTyp, TRUE, last.accepts, MaxDepth).text \o ";"

(***************************************************************************)
(* Properties of the boxing instructions (specification SpecInstructions). *)
(***************************************************************************)
MakeInterfaceReturned == last.fn = "MakeInterface"
TypeAssertReturned == last.fn = "TypeAssert"

\* the box of a value with the ID of a type
BoxOf(id, value) == "new Interface(" \o Itoa(id) \o "," \o value \o ")"

\* C14: MakeInterface emits a box of the value and the registry ID of the value's own
\* static type, which is in the registry afterwards; the value is adapted to the
\* backend-native representation exactly when that static type is native-mapped.
C14_AdaptedWhenValueTypeIsMapped ==
    MakeInterfaceReturned =>
        LET t == last.v.type
            id == TypesEncountered[t]
        IN  /\ t \in DOMAIN TypesEncountered
            /\ IF IsMapped(t)
               THEN last.ret \in
                        {last.register \o "=" \o BoxOf(id, "Force.toHaxeParam("
                            \o last.v.name \o ")") \o ";",
                         last.register \o "=Force.toHaxeParam(" \o BoxOf(id, last.v.name)
                            \o ");"}
               ELSE last.ret = last.register \o "=" \o BoxOf(id, last.v.name) \o ";"

\* the runtime check a type assertion emits
AssertCheck(register, CommaOk, id, value) ==
    register \o (IF CommaOk THEN "=Interface.assertOk(" ELSE "=Interface.assert(")
        \o Itoa(id) \o "," \o value \o ");"

\* what a TypeAssert that has returned leaves behind
TypeAssertDone ==
    TypeAssertReturned =>
        IF last.register = "" THEN last.ret = ""
        ELSE /\ last.AssertedType \in DOMAIN TypesEncountered
             /\ TypesEncountered[last.AssertedType] \in 1..(NextTypeID - 1)
             /\ last.ret = AssertCheck(last.register, last.CommaOk,
                                       TypesEncountered[last.AssertedType], last.v.name)

\* a type in the registry stays there, with its ID
IDsKept ==
    \A t \in DOMAIN TypesEncountered :
        t \in DOMAIN TypesEncountered' /\ TypesEncountered'[t] = TypesEncountered[t]

\* C15: a TypeAssert with a destination register emits one runtime check whose first
\* argument is the registry ID of the asserted type, Interface.assertOk exactly when
\* CommaOk is true and Interface.assert otherwise; after the call the asserted type is
\* in the registry with that ID; no call changes the ID of a type, so a repeated
\* TypeAssert on the type emits the same ID.
C15_TypeAssertEmitsRegistryID == [][IDsKept /\ TypeAssertDone']_vars

C15_Witness ==
    /\ TypeAssertReturned
    /\ last.register = "_t1" /\ last.CommaOk
    /\ TypesEncountered[last.AssertedType] < NextTypeID - 1
    /\ last.ret = "_t1=Interface.assertOk(1,_v);"

(***************************************************************************)
(* Properties of the lookup of a backend (specification SpecLanguages).    *)
(***************************************************************************)
\* the positions, from 0, at which LanguageList holds an entry named s
PositionsOf(s) == {i \in 0..(Len(LanguageList) - 1) : LanguageList[i + 1].name = s}

\* what a lookup of s that has just returned answered
FoundRight(s) ==
    /\ last'.s = s
    /\ IF PositionsOf(s) = {}
       THEN last'.k = -1 /\ last'.e # "nil"
       ELSE /\ last'.k \in PositionsOf(s)
            /\ \A i \in PositionsOf(s) : last'.k <= i
            /\ last'.e = "nil"

\* C16: FindTargetLang(s) returns the smallest index of LanguageList whose entry is
\* named s, with a nil error; index -1 with an error when no entry is, the empty list
\* included; and it leaves LanguageList as it was.
C16_FindTargetLangFirstMatch ==
    [][\A s \in TargetNames :
            FindTargetLangCall(s) => (FoundRight(s) /\ LanguageList' = LanguageList)]_vars

C16_Witness ==
    /\ last.fn = "FindTargetLang" /\ last.s = "haxe" /\ last.k = 1
    /\ Len(LanguageList) = MaxInits
    /\ LanguageList[2].name = "haxe" /\ LanguageList[4].name = "haxe"

(***************************************************************************)
(* Properties of the emitted type metadata (specification SpecRegistry).   *)
(***************************************************************************)
\* the innermost type reached from t through named types
Innermost(t) == IF TT[t].kind = "Named" THEN TT[t].under ELSE t

\* the entry of typesByID written for the registered type t
EntryOf(t) == emitted.typesByID[TypesEncountered[t] + 1]

\* what the entry of a registered type says of its kind and its name
KindAndNameRight(t) ==
    /\ EntryOf(t).kind = ReflectKind(IF TT[Innermost(t)].kind = "Basic"
                                     THEN TT[Innermost(t)].bk ELSE TT[Innermost(t)].kind)
    /\ HaxeValue(EntryOf(t).name) = IF TT[t].kind = "Named" THEN ObjName(t) ELSE ""

\* C17: for every registered type the fieldAlign written into its entry of typesByID
\* is the alignment of the innermost underlying type reached through named types, next
\* to the kind of that innermost type and the name of the outermost named type.
C17_FieldAlignOfInnermostType ==
    emitted.valid =>
        \A t \in DOMAIN TypesEncountered :
            /\ EntryOf(t).isValid
            /\ EntryOf(t).fieldAlign = Alignof(Innermost(t))
            /\ KindAndNameRight(t)

\* a method of a native-mapped package: the package's name starts with "_"
InNativePackage(m) == m.pkg # "" /\ Ch(m.pkg, 1) = "_"

\* the wrapper generated for the method named name of the type T
WrapperOf(T, name) == "Go_" \o MakeID(String(T)) \o "_" \o MakeID(name) \o ".call"

\* the types of TypesWithMethodSets
MethodSetTypes == {TypesWithMethodSets[k] : k \in 1..Len(TypesWithMethodSets)}

\* C18: for every type of TypesWithMethodSets that is in the registry, the emitted
\* method table has, under the type's ID, one case per method of its method set that
\* is not of a native-mapped package, keyed by the method's name and returning its
\* wrapper; methods of native-mapped packages, and only they, have no case; a type
\* that is not in the registry has no case.
C18_OneCasePerMethod ==
    emitted.valid =>
        /\ \A T \in MethodSetTypes \cap DOMAIN TypesEncountered :
            \A k \in 1..Len(MethodSet(T)) :
                LET m == MethodSet(T)[k]
                    case == <<TypesEncountered[T], m.name, WrapperOf(T, m.name)>>
                IN  IF InNativePackage(m)
                    THEN ~\E c \in emitted.method :
                            c[1] = TypesEncountered[T] /\ c[2] = m.name
                    ELSE case \in emitted.method
        /\ \A c \in emitted.method :
            \E T \in MethodSetTypes \cap DOMAIN TypesEncountered :
                /\ c[1] = TypesEncountered[T]
                /\ \E k \in 1..Len(MethodSet(T)) : MethodSet(T)[k].name = c[2]

(***************************************************************************)
(* Termination of the type lowering                                        *)
(***************************************************************************)

\* C19: LangType returns for every type of the finite type table, a named map or
\* channel type that is cyclic only through itself included; it never recurses
\* until the stack overflows.
C19_LangTypeTerminates == LangTypeReturned => ~last.ret.ovf

====
